---------------------------- MODULE Spec2Model ----------------------------
(***************************************************************************)
(* Model of wyoming-universal-stt: the per-connection WhisperEventHandler  *)
(* (handler.py), the three backends' constructors and transcribe adapters  *)
(* (backends/*.py), the backend factory and its detection of the host      *)
(* (backends/factory.py) and main, from the command line to the server     *)
(* (__main__.py).                                                          *)
(*                                                                         *)
(* The server is a single asyncio event loop.  A handler runs from one     *)
(* await that suspends to the next without any other task running (see    *)
(* SyncPoints).  backend.transcribe and the loop that consumes             *)
(* its segments are ordinary blocking calls, so the stretch that starts at *)
(* an AudioStop event lasts until write_event.                             *)
(***************************************************************************)
EXTENDS Integers, Sequences, FiniteSets, TLC

\* ------------------------------------------------------------------ bounds
MaxChunks == 2      \* audio chunk events accepted per connection
MaxSegs == 3        \* segments an engine returns for one utterance
MaxDescribes == 1   \* Describe requests answered per connection
MaxCreates == 2     \* create_backend calls made on the factory on its own

\* ---------------------------------------------------------------- universe
Sessions == {"c1", "c2"}
None == "None"

BackendNames == {"faster-whisper", "mlx-whisper", "openai-whisper"}

\* Language codes a client may send; None models a missing/empty language.
Languages == {None, "en", "de"}
DefaultLanguages == {None, "en"}

\* PCM formats accepted by wave.Wave_write (rate > 0, 1 <= width <= 4, channels >= 1).
Formats == { [rate |-> 16000, width |-> 2, channels |-> 1],
             [rate |-> 8000,  width |-> 2, channels |-> 1] }
Payloads == { <<1>>, <<2, 3>> }

RECURSIVE SeqsUpTo(_, _)
SeqsUpTo(S, n) ==
    IF n = 0 THEN { <<>> }
    ELSE LET shorter == SeqsUpTo(S, n - 1)
         IN  shorter \cup { Append(t, c) : t \in shorter, c \in S }

\* Native segment texts: empty, blank, plain, with leading and/or trailing
\* whitespace, and with whitespace inside.
Texts == { <<>>, <<" ">>, <<"a">>, <<"a", "a">>, <<" ", "a">>, <<"a", " ">>,
           <<" ", "a", " ">>, <<"a", " ", "a">> }

\* ------------------------------------------------------------ text helpers
\* str.strip(): remove leading and trailing whitespace.
IsSpace(c) == c = " "

RECURSIVE LStrip(_)
LStrip(t) ==
    IF t = <<>> THEN t
    ELSE IF IsSpace(Head(t)) THEN LStrip(Tail(t)) ELSE t

RECURSIVE RStrip(_)
RStrip(t) ==
    IF t = <<>> THEN t
    ELSE IF IsSpace(t[Len(t)]) THEN RStrip(SubSeq(t, 1, Len(t) - 1)) ELSE t

Strip(t) == RStrip(LStrip(t))

\* A join that forgets the separator.
RECURSIVE Join_NoSeparator(_)
Join_NoSeparator(texts) ==
    IF texts = <<>> THEN <<>> ELSE Head(texts) \o Join_NoSeparator(Tail(texts))

\* " ".join(segment_texts)
RECURSIVE Join(_)
Join(texts) ==
    IF texts = <<>> THEN <<>>
    ELSE IF Len(texts) = 1 THEN texts[1]
    ELSE texts[1] \o <<" ">> \o Join(Tail(texts))


\* ------------------------------------------------------- backend adapters
\* What the underlying engine does for one utterance:
\*   fail     "none": the engine returns; "call": the engine call raises;
\*            "iter": a failure occurs after the listed segments were produced
\*   segments texts of the native segments, in order
\*   has_text / text   the full-text field of a dictionary or response result
EngineOutcome(fail, segments, has_text, text) ==
    [fail |-> fail, segments |-> segments, has_text |-> has_text, text |-> text]

EngineOutcomesOver(T) ==
    { EngineOutcome("call", <<>>, FALSE, <<>>) }
    \cup { EngineOutcome(f, sg, FALSE, <<>>) :
             f \in {"none", "iter"}, sg \in SeqsUpTo(T, MaxSegs) }
    \cup { EngineOutcome("none", <<>>, TRUE, t) : t \in T }

EngineOutcomes == EngineOutcomesOver(Texts)

\* The Segment objects a backend yields to the handler.
Segment(t) == [has_text |-> TRUE, text |-> t]

\* What the handler observes of backend.transcribe(...):
\*   raises_at_call   the call itself raises
\*   segs             the segments the returned iterator yields, in order
\*   raises_after     the iterator raises once segs are exhausted
Iteration(at_call, segs, after) ==
    [raises_at_call |-> at_call, segs |-> segs, raises_after |-> after]

MapSegment(segs) == [i \in 1..Len(segs) |-> Segment(segs[i])]

\* FasterWhisperBackend.transcribe: returns the engine's lazy generator as is.
FasterWhisperTranscribe(eng) ==
    IF eng.fail = "call" THEN Iteration(TRUE, <<>>, FALSE)
    ELSE Iteration(FALSE, MapSegment(eng.segments), eng.fail = "iter")

\* MLXWhisperBackend.transcribe: a generator; strips each text and skips the
\* empty ones; any exception is caught and one Segment("") is yielded.
RECURSIVE MLXSegments(_)
MLXSegments(segs) ==
    IF segs = <<>> THEN <<>>
    ELSE LET t == Strip(Head(segs))
         IN  (IF t # <<>> THEN <<Segment(t)>> ELSE <<>>) \o MLXSegments(Tail(segs))

MLXTranscribe(eng) ==
    IF eng.fail = "call" THEN Iteration(FALSE, <<Segment(<<>>)>>, FALSE)
    ELSE LET body ==
                 IF eng.segments # <<>> THEN MLXSegments(eng.segments)
                 ELSE IF eng.has_text
                      THEN (IF Strip(eng.text) # <<>>
                            THEN <<Segment(Strip(eng.text))>> ELSE <<>>)
                      ELSE <<>>
         IN  IF eng.fail = "iter"
             THEN Iteration(FALSE, body \o <<Segment(<<>>)>>, FALSE)
             ELSE Iteration(FALSE, body, FALSE)

\* OpenAIWhisperBackend.transcribe: a generator; yields the native texts as
\* they are; any exception is logged and raised again.
OpenAITranscribe(eng) ==
    IF eng.fail = "call" THEN Iteration(FALSE, <<>>, TRUE)
    ELSE IF eng.segments # <<>>
         THEN Iteration(FALSE, MapSegment(eng.segments), eng.fail = "iter")
         ELSE IF eng.has_text /\ eng.fail = "none"
              THEN Iteration(FALSE, <<Segment(eng.text)>>, FALSE)
              ELSE Iteration(FALSE, <<>>, TRUE)

\* self.backend.transcribe(...): the method of the class of the backend
\* object wb, whatever name that class was registered under.
Transcribe(wb, eng) ==
    CASE wb.cls = "FasterWhisperBackend" -> FasterWhisperTranscribe(eng)
      [] wb.cls = "MLXWhisperBackend"    -> MLXTranscribe(eng)
      [] wb.cls = "OpenAIWhisperBackend" -> OpenAITranscribe(eng)

\* ------------------------------------------------------ capability record
\* whisper_backend.get_attribution(), get_supported_languages() and
\* get_version(): methods of the class of the backend object wb.
GetAttribution(wb) ==
    CASE wb.cls = "FasterWhisperBackend" ->
           [name |-> "Guillaume Klein", url |-> "https://github.com/guillaumekln/faster-whisper/"]
      [] wb.cls = "MLXWhisperBackend" ->
           [name |-> "MLX Community", url |-> "https://github.com/ml-explore/mlx-examples/"]
      [] wb.cls = "OpenAIWhisperBackend" ->
           [name |-> "OpenAI", url |-> "https://platform.openai.com/docs/guides/speech-to-text"]

GetSupportedLanguages(wb) ==
    CASE wb.cls = "FasterWhisperBackend" -> <<"faster_whisper.tokenizer._LANGUAGE_CODES">>
      [] wb.cls = "MLXWhisperBackend" ->
           <<"en", "es", "fr", "de", "it", "pt", "ru", "ja", "ko", "zh">>
      [] wb.cls = "OpenAIWhisperBackend" ->
           <<"af", "am", "ar", "as", "az", "ba", "be", "bg", "bn", "bo",
             "br", "bs", "ca", "cs", "cy", "da", "de", "el", "en", "es",
             "et", "eu", "fa", "fi", "fo", "fr", "gl", "gu", "ha", "haw",
             "he", "hi", "hr", "ht", "hu", "hy", "id", "is", "it", "ja",
             "jw", "ka", "kk", "km", "kn", "ko", "la", "lb", "ln", "lo",
             "lt", "lv", "mg", "mi", "mk", "ml", "mn", "mr", "ms", "mt",
             "my", "ne", "nl", "nn", "no", "oc", "pa", "pl", "ps", "pt",
             "ro", "ru", "sa", "sd", "si", "sk", "sl", "sn", "so", "sq",
             "sr", "su", "sv", "sw", "ta", "te", "tg", "th", "tk", "tl",
             "tr", "tt", "uk", "ur", "uz", "vi", "yi", "yo", "zh">>

GetVersion(wb) ==
    CASE wb.cls = "FasterWhisperBackend" -> "faster_whisper.__version__"
      [] wb.cls = "MLXWhisperBackend"    -> "mlx_whisper.__version__"
      [] wb.cls = "OpenAIWhisperBackend" -> "openai-api-version"

\* main: Info(asr=[AsrProgram(... models=[AsrModel(...)])]): the name is
\* args.backend, the rest is asked of the backend object wb.
WyomingInfo(b, wb) ==
    [name        |-> b,
     attribution |-> GetAttribution(wb),
     installed   |-> TRUE,
     languages   |-> GetSupportedLanguages(wb),
     version     |-> GetVersion(wb)]

\* wyoming_info.event()
InfoEvent(info) == [type |-> "info", data |-> info]

\* Transcript(text=text).event()
TranscriptEvent(t) == [type |-> "transcript", text |-> t]


\* ----------------------------------------------------------------- startup
\* The host as main and the backends see it: platform.system().lower(),
\* platform.machine().lower(), the engine packages that can be imported,
\* whether an OpenAI API key is configured and whether the faster-whisper
\* engine manages to load the model it is given.
Systems == {"darwin", "linux"}
Machines == {"arm64", "aarch64", "x86_64"}
Modules == {"mlx_whisper", "faster_whisper", "whisper", "openai"}

Hosts ==
    [system : Systems, machine : Machines, modules : SUBSET Modules,
     api_key : BOOLEAN, model_loads : BOOLEAN]

\* ("arm" in machine) or ("aarch" in machine), over Machines.
IsArm(machine) == machine \in {"arm64", "aarch64"}

\* Model identifiers are sequences of the parts the code tells apart:
\* "base.int8" is <<"base", ".", "int8">>.
Auto == <<"auto">>
Int8Sizes == {"tiny", "base", "small", "medium"}
MLXSizes == {"tiny", "base", "small", "medium", "large"}
MLXDefaultModel == <<"mlx-community/", "whisper-", "tiny", "-mlx">>
Int8Model(size) == <<size, "-", "int8">>

\* The command line: --backend, --model, --beam-size, --language (None when
\* the option is not given).
BackendArgs == BackendNames \cup {"auto", "whisper-cpp"}
ModelArgs == { Auto, <<"base", ".", "int8">>, <<"small">>, <<"whisper-1">> }
BeamSizeArgs == {-1, 0, 3}
LanguageArgs == {"auto", None, "en"}

Argvs ==
    [backend : BackendArgs, model : ModelArgs, beam_size : BeamSizeArgs,
     language : LanguageArgs]

\* The result of a call: the exception it raised (None when it returned)
\* and the value it returned.
Returned(v) == [raised |-> None, value |-> v]
RaisedError(e, v) == [raised |-> e, value |-> v]

\* Detection that goes for the accelerated engine first on every host.
DetectOptimalBackend_NoApple(h) ==
    IF "faster_whisper" \in h.modules THEN Returned("faster-whisper")
    ELSE IF "whisper" \in h.modules THEN Returned("openai-whisper")
    ELSE RaisedError("ImportError", None)

\* detect_optimal_backend()
DetectOptimalBackend(h) ==
    IF h.system = "darwin" /\ IsArm(h.machine) /\ "mlx_whisper" \in h.modules
    THEN Returned("mlx-whisper")
    ELSE IF "faster_whisper" \in h.modules THEN Returned("faster-whisper")
    ELSE IF "whisper" \in h.modules THEN Returned("openai-whisper")
    ELSE RaisedError("ImportError", None)

\* Model selection that also replaces a model named on the command line.
AutoModel_Always(b, model, is_arm) ==
    IF b = "mlx-whisper" THEN MLXDefaultModel
    ELSE IF is_arm THEN Int8Model("tiny") ELSE Int8Model("base")

\* main: automatic model selection.
AutoModel(b, model, is_arm) ==
    IF model = Auto
    THEN IF b = "mlx-whisper" THEN MLXDefaultModel
         ELSE IF is_arm THEN Int8Model("tiny") ELSE Int8Model("base")
    ELSE model

\* Beam selection that keeps whatever the command line gave.
AutoBeamSize_Keep(beam_size, is_arm) == beam_size

\* main: beam size for ARM.
AutoBeamSize(beam_size, is_arm) ==
    IF beam_size <= 0 THEN (IF is_arm THEN 1 ELSE 5) ELSE beam_size

\* re.match(r"^(tiny|base|small|medium)[.-]int8$", model)
MatchInt8(model) ==
    /\ Len(model) = 3
    /\ model[1] \in Int8Sizes
    /\ model[2] \in {".", "-"}
    /\ model[3] = "int8"

\* main: the model name shown to clients and the model given to the backend.
ResolveModel(b, model) ==
    IF b = "faster-whisper" /\ MatchInt8(model)
    THEN [model_name |-> Int8Model(model[1]),
          model      |-> <<"rhasspy/faster-whisper-">> \o Int8Model(model[1])]
    ELSE [model_name |-> model, model |-> model]

\* main: --language auto means no default language.
ResolveLanguage(l) == IF l = "auto" THEN None ELSE l

\* ---------------------------------------------------------------- backends
Classes == {"FasterWhisperBackend", "MLXWhisperBackend", "OpenAIWhisperBackend"}

NoBackend == [cls |-> None, model |-> <<>>]
Instance(cls, model) == [cls |-> cls, model |-> model]

\* MLXWhisperBackend.__init__: the model path.
MLXModelPath(model) ==
    IF model # <<>> /\ Head(model) = "mlx-community/" THEN model
    ELSE IF Len(model) = 1 /\ model[1] \in MLXSizes
         THEN <<"mlx-community/", "whisper-", model[1], "-mlx">>
         ELSE MLXDefaultModel

\* The constructors of the three backend classes.
Construct(cls, model, h) ==
    CASE cls = "FasterWhisperBackend" ->
           IF "faster_whisper" \notin h.modules THEN RaisedError("ImportError", NoBackend)
           ELSE IF ~h.model_loads THEN RaisedError("RuntimeError", NoBackend)
           ELSE Returned(Instance(cls, model))
      [] cls = "MLXWhisperBackend" ->
           IF "mlx_whisper" \notin h.modules THEN RaisedError("ImportError", NoBackend)
           ELSE Returned(Instance(cls, MLXModelPath(model)))
      [] cls = "OpenAIWhisperBackend" ->
           IF "openai" \notin h.modules THEN RaisedError("ImportError", NoBackend)
           ELSE IF ~h.api_key THEN RaisedError("ValueError", NoBackend)
           ELSE Returned(Instance(cls, IF model = <<"whisper-1">> THEN model
                                       ELSE <<"whisper-1">>))

\* WhisperBackendFactory._backends as the class definition leaves it.
DefaultBackends ==
    [n \in BackendNames |->
        CASE n = "faster-whisper" -> "FasterWhisperBackend"
          [] n = "mlx-whisper"    -> "MLXWhisperBackend"
          [] n = "openai-whisper" -> "OpenAIWhisperBackend"]

\* WhisperBackendFactory.register_backend
RegisterBackend(reg, name, cls) ==
    [n \in DOMAIN reg \cup {name} |-> IF n = name THEN cls ELSE reg[n]]

\* A factory that falls back to the first registered class.
CreateBackend_Fallback(reg, name, model, h) ==
    LET n == IF name \in DOMAIN reg THEN name ELSE "faster-whisper"
    IN  [invoked |-> << [name |-> name, cls |-> reg[n]] >>,
         result  |-> Construct(reg[n], model, h)]

\* WhisperBackendFactory.create_backend: the constructor invocations it made
\* (the name asked for and the class constructed) and the result of the call.
CreateBackend(reg, name, model, h) ==
    IF name \notin DOMAIN reg
    THEN [invoked |-> <<>>, result |-> RaisedError("ValueError", NoBackend)]
    ELSE [invoked |-> << [name |-> name, cls |-> reg[name]] >>,
          result  |-> Construct(reg[name], model, h)]

\* WhisperBackendFactory.get_available_backends
GetAvailableBackends(reg) == DOMAIN reg

\* The Info record before main has built it.
NoInfo ==
    [name        |-> None,
     attribution |-> [name |-> None, url |-> None],
     installed   |-> FALSE,
     languages   |-> <<>>,
     version     |-> None]

\* A main that goes on to serve whatever create_backend did.
AfterCreate_Serve(result) == "serving"

\* main: try create_backend / except Exception: log the error and return.
AfterCreate(result) == IF result.raised # None THEN "exit" ELSE "serving"

\* main, from parse_args to the call of server.run: where it ends up
\* ("serving" or "exit"), the exception that stopped it, and args,
\* model_name, whisper_backend and wyoming_info as it leaves them.
Main(h, args, reg) ==
    LET parsed   == args.backend \in GetAvailableBackends(reg) \cup {"auto"}
        detected == IF args.backend = "auto" THEN DetectOptimalBackend(h)
                    ELSE Returned(args.backend)
        b        == detected.value
        is_arm   == IsArm(h.machine)
        beam     == AutoBeamSize(args.beam_size, is_arm)
        resolved == ResolveModel(b, AutoModel(b, args.model, is_arm))
        created  == CreateBackend(reg, b, resolved.model, h)
        stopped(e) ==
            [stage |-> "exit", error |-> e, backend |-> args.backend,
             model |-> args.model, model_name |-> <<>>,
             beam_size |-> args.beam_size, language |-> args.language,
             whisper_backend |-> NoBackend, invoked |-> <<>>,
             wyoming_info |-> NoInfo]
    IN  IF ~parsed THEN stopped("SystemExit")
        ELSE IF detected.raised # None THEN stopped(detected.raised)
        ELSE [stage |-> AfterCreate(created.result),
              error |-> created.result.raised,
              backend |-> b,
              model |-> resolved.model,
              model_name |-> resolved.model_name,
              beam_size |-> beam,
              language |-> ResolveLanguage(args.language),
              whisper_backend |-> created.result.value,
              invoked |-> created.invoked,
              wyoming_info |-> IF created.result.raised = None
                               THEN WyomingInfo(b, created.result.value) ELSE NoInfo]

\* A host on which every backend can be constructed.
ServingHost ==
    [system |-> "darwin", machine |-> "arm64", modules |-> Modules,
     api_key |-> TRUE, model_loads |-> TRUE]

\* ------------------------------------------------------------------- state
VARIABLES
    stage,            \* main: "start" before it runs, then "serving" or "exit"
    host,             \* the platform, the importable engines, the environment
    argv,             \* the command line as parse_args read it
    registry,         \* WhisperBackendFactory._backends
    error,            \* the exception that ended main or the latest create_backend
    backend,          \* main: args.backend, the one backend shared by all handlers
    model,            \* main: args.model
    model_name,       \* main: model_name, the name advertised in the Info record
    beam_size,        \* main: args.beam_size
    cli_language,     \* main: args.language, the startup default language
    whisper_backend,  \* main: the backend instance given to every handler
    constructed,      \* the constructor invocations made by create_backend, in order
    wyoming_info,     \* main: the Info record built once before serving
    model_lock,       \* main: the asyncio.Lock shared by all handlers; holder or None
    in_flight,        \* number of backend transcriptions in progress
    pc,               \* per connection: where its handler task stands
    wyoming_info_event, \* handler: self.wyoming_info_event
    language,         \* handler: self._language
    wav_file,         \* handler: self._wav_file and the file at self._wav_path
    transcription_kwargs, \* handle_event: the options given to the backend
    segments,         \* handle_event: the iterator returned by backend.transcribe
    engine_fail,      \* whether and where the engine behind that iterator fails
    segment_texts,    \* handle_event: the texts collected so far
    text,             \* handle_event: the transcript text
    out,              \* events written to the connection, in order
    chunks,           \* AudioChunk events handled on the connection, in order
    opens,            \* number of wave.open calls made by the handler
    removed,          \* whether dropping the slot's last handler deleted a wave file
    yielded,          \* segments taken from the iterator, in order
    last_requested    \* language of the latest Transcribe event that carried one

vars == << stage, host, argv, registry, error, backend, model, model_name, beam_size,
           cli_language, whisper_backend, constructed, wyoming_info, model_lock, in_flight, pc,
           wyoming_info_event, language, last_requested, wav_file, transcription_kwargs,
           segments, engine_fail, segment_texts, text, out, chunks, opens, removed, yielded >>

main_vars == << stage, host, argv, registry, error, backend, model, model_name,
               beam_size, cli_language, whisper_backend, constructed,
               wyoming_info >>

\* Values used where Python has None or nothing yet.
NoFormat == [rate |-> 0, width |-> 0, channels |-> 0]
NoWav == [state |-> "None", format |-> NoFormat, frames |-> <<>>]
NoKwargs == [language |-> None, beam_size |-> 0, set |-> FALSE]
NoSegments == Iteration(FALSE, <<>>, FALSE)

\* Handler program points.  "read" is the server loop waiting for the next
\* event; the others are positions inside handle_event for an AudioStop.
\* "returned": handle_event returned False; "failed": it raised;
\* "disconnected": the client went away; "none": no connection in this slot.
Ended == {"none", "returned", "failed", "disconnected"}

\* Positions from which the handler continues without awaiting anything that
\* suspends: from the AudioStop branch up to the write of the Transcript.
SyncPoints == {"acquire", "call", "iter", "release", "write"}

\* No handler is in the middle of a synchronous stretch, so the event loop
\* can run another task.
LoopFree == \A t \in Sessions : pc[t] \notin SyncPoints

\* self._wav_file is None
WavIsNone(s) == wav_file[s].state # "open"

\* No connection yet: the handler variables of every slot.
NoConnections ==
    /\ model_lock = None
    /\ in_flight = 0
    /\ pc = [s \in Sessions |-> "none"]
    /\ wyoming_info_event = [s \in Sessions |-> InfoEvent(wyoming_info)]
    /\ language = [s \in Sessions |-> cli_language]
    /\ wav_file = [s \in Sessions |-> NoWav]
    /\ transcription_kwargs = [s \in Sessions |-> NoKwargs]
    /\ segments = [s \in Sessions |-> NoSegments]
    /\ engine_fail = [s \in Sessions |-> "none"]
    /\ segment_texts = [s \in Sessions |-> <<>>]
    /\ text = [s \in Sessions |-> <<>>]
    /\ out = [s \in Sessions |-> <<>>]
    /\ chunks = [s \in Sessions |-> <<>>]
    /\ opens = [s \in Sessions |-> 0]
    /\ removed = [s \in Sessions |-> FALSE]
    /\ yielded = [s \in Sessions |-> <<>>]
    /\ last_requested = [s \in Sessions |-> None]

\* The process before main runs, on host h with command line args.
Starting(h, args) ==
    /\ stage = "start"
    /\ host = h
    /\ argv = args
    /\ registry = DefaultBackends
    /\ error = None
    /\ backend = args.backend
    /\ model = args.model
    /\ model_name = <<>>
    /\ beam_size = args.beam_size
    /\ cli_language = args.language
    /\ whisper_backend = NoBackend
    /\ constructed = <<>>
    /\ wyoming_info = NoInfo
    /\ NoConnections

\* The process as main leaves it on host h with command line args.
Started(h, args) ==
    LET r == Main(h, args, DefaultBackends)
    IN  /\ stage = r.stage
        /\ host = h
        /\ argv = args
        /\ registry = DefaultBackends
        /\ error = r.error
        /\ backend = r.backend
        /\ model = r.model
        /\ model_name = r.model_name
        /\ beam_size = r.beam_size
        /\ cli_language = r.language
        /\ whisper_backend = r.whisper_backend
        /\ constructed = r.invoked
        /\ wyoming_info = r.wyoming_info
        /\ NoConnections

\* The server is up: main has run on a host where the chosen backend can be
\* constructed, with the model and the beam size left to main.
Init ==
    \E b \in BackendNames, l \in DefaultLanguages :
        Started(ServingHost, [backend |-> b, model |-> Auto, beam_size |-> 0, language |-> l])

\* main: from parse_args up to server.run, or to the point where it stops.
RunMain ==
    /\ stage = "start"
    /\ LET r == Main(host, argv, registry)
       IN  /\ stage' = r.stage
           /\ error' = r.error
           /\ backend' = r.backend
           /\ model' = r.model
           /\ model_name' = r.model_name
           /\ beam_size' = r.beam_size
           /\ cli_language' = r.language
           /\ whisper_backend' = r.whisper_backend
           /\ constructed' = constructed \o r.invoked
           /\ wyoming_info' = r.wyoming_info
           /\ wyoming_info_event' = [s \in Sessions |-> InfoEvent(r.wyoming_info)]
           /\ language' = [s \in Sessions |-> r.language]
    /\ UNCHANGED << host, argv, registry, model_lock, in_flight, pc, last_requested, wav_file,
                    transcription_kwargs, segments, engine_fail, segment_texts, text, out,
                    chunks, opens, removed, yielded >>

\* WhisperBackendFactory.register_backend(name, backend_class), called
\* before main runs.
Register(name, cls) ==
    /\ stage = "start"
    /\ registry' = RegisterBackend(registry, name, cls)
    /\ UNCHANGED << stage, host, argv, error, backend, model, model_name, beam_size,
                    cli_language, whisper_backend, constructed, wyoming_info,
                    model_lock, in_flight, pc, wyoming_info_event, language,
                    last_requested, wav_file, transcription_kwargs, segments,
                    engine_fail, segment_texts, text, out, chunks, opens, removed, yielded >>

\* WhisperBackendFactory.create_backend(name, model_name), called on its own.
Create(name, model_arg) ==
    /\ stage = "start"
    /\ Len(constructed) < MaxCreates
    /\ LET c == CreateBackend(registry, name, model_arg, host)
       IN  /\ error' = c.result.raised
           /\ whisper_backend' = IF c.result.raised = None THEN c.result.value
                                  ELSE whisper_backend
           /\ constructed' = constructed \o c.invoked
    /\ UNCHANGED << stage, host, argv, registry, backend, model, model_name, beam_size,
                    cli_language, wyoming_info,
                    model_lock, in_flight, pc, wyoming_info_event, language,
                    last_requested, wav_file, transcription_kwargs, segments,
                    engine_fail, segment_texts, text, out, chunks, opens, removed, yielded >>

\* server.run is accepting connections.
Serving == stage = "serving"

\* --------------------------------------------------- connection life cycle
\* server.run: a new connection gets a new WhisperEventHandler (__init__).
Connect(s) ==
    /\ Serving
    /\ pc[s] \in Ended
    /\ LoopFree
    /\ pc' = [pc EXCEPT ![s] = "read"]
    /\ wyoming_info_event' = [wyoming_info_event EXCEPT ![s] = InfoEvent(wyoming_info)]
    /\ language' = [language EXCEPT ![s] = cli_language]
    /\ wav_file' = [wav_file EXCEPT ![s] = NoWav]
    /\ transcription_kwargs' = [transcription_kwargs EXCEPT ![s] = NoKwargs]
    /\ segments' = [segments EXCEPT ![s] = NoSegments]
    /\ engine_fail' = [engine_fail EXCEPT ![s] = "none"]
    /\ segment_texts' = [segment_texts EXCEPT ![s] = <<>>]
    /\ text' = [text EXCEPT ![s] = <<>>]
    /\ out' = [out EXCEPT ![s] = <<>>]
    /\ chunks' = [chunks EXCEPT ![s] = <<>>]
    /\ opens' = [opens EXCEPT ![s] = 0]
    /\ removed' = [removed EXCEPT ![s] = FALSE]
    /\ yielded' = [yielded EXCEPT ![s] = <<>>]
    /\ last_requested' = [last_requested EXCEPT ![s] = None]
    /\ UNCHANGED << main_vars, model_lock, in_flight >>

\* The handler object goes away: its attributes, the locals of handle_event
\* and (through __del__) its temporary directory with the wave file.
\* A handler whose temporary directory outlives it.
Cleanup_Leak(w) == w

\* self._wav_dir.cleanup(): the directory and the wave file in it are gone.
Cleanup(w) == NoWav

DropLocals(s) ==
    /\ wav_file' = [wav_file EXCEPT ![s] = Cleanup(@)]
    /\ transcription_kwargs' = [transcription_kwargs EXCEPT ![s] = NoKwargs]
    /\ segments' = [segments EXCEPT ![s] = NoSegments]
    /\ engine_fail' = [engine_fail EXCEPT ![s] = "none"]
    /\ segment_texts' = [segment_texts EXCEPT ![s] = <<>>]
    /\ text' = [text EXCEPT ![s] = <<>>]
    /\ chunks' = [chunks EXCEPT ![s] = <<>>]
    /\ opens' = [opens EXCEPT ![s] = 0]
    /\ removed' = [removed EXCEPT ![s] = wav_file[s] # Cleanup(wav_file[s])]
    /\ yielded' = [yielded EXCEPT ![s] = <<>>]

DropHandler(s) ==
    /\ language' = [language EXCEPT ![s] = cli_language]
    /\ last_requested' = [last_requested EXCEPT ![s] = None]
    /\ DropLocals(s)

\* The client closes the connection while the handler waits for an event:
\* the handler is dropped and __del__ removes its temporary directory.
Disconnect(s) ==
    /\ pc[s] = "read"
    /\ LoopFree
    /\ pc' = [pc EXCEPT ![s] = "disconnected"]
    /\ DropHandler(s)
    /\ UNCHANGED << main_vars, model_lock, in_flight, wyoming_info_event, out >>

\* ------------------------------------------------------------ handle_event
\* AudioChunk: open the wave file on the first chunk, then write the frames.
\* A write that puts the new frames in front of the old ones.
WriteFrames_Prepend(w, audio) == [w EXCEPT !.frames = audio \o w.frames]

WriteFrames(w, audio) == [w EXCEPT !.frames = w.frames \o audio]

OpenWav(chunk) == [state |-> "open", format |-> chunk.format, frames |-> <<>>]

HandleAudioChunk(s, chunk) ==
    /\ pc[s] = "read"
    /\ LoopFree
    /\ Len(chunks[s]) < MaxChunks
    /\ wav_file' = [wav_file EXCEPT ![s] =
           WriteFrames(IF WavIsNone(s) THEN OpenWav(chunk) ELSE wav_file[s], chunk.audio)]
    /\ opens' = [opens EXCEPT ![s] = IF WavIsNone(s) THEN @ + 1 ELSE @]
    /\ chunks' = [chunks EXCEPT ![s] = Append(@, chunk)]
    /\ UNCHANGED << removed, main_vars, model_lock, in_flight, pc, wyoming_info_event, language, last_requested,
                    transcription_kwargs, segments, engine_fail, segment_texts, text, out, yielded >>

AudioChunks == { [format |-> f, audio |-> a] : f \in Formats, a \in Payloads }


\* AudioStop, first part: the assertion, closing the wave file.  Without an
\* open file the assertion (or the attribute access on None) raises and the
\* exception leaves handle_event: the handler task ends.
CloseWav(w) == [w EXCEPT !.state = "closed"]

\* A stop handler without the assertion: it goes on to transcribe whatever
\* file is at the path.
HandleAudioStop_NoAssert(s) ==
    /\ pc[s] = "read"
    /\ LoopFree
    /\ pc' = [pc EXCEPT ![s] = "acquire"]
    /\ wav_file' = [wav_file EXCEPT ![s] = CloseWav(@)]
    /\ UNCHANGED << main_vars, model_lock, in_flight, wyoming_info_event, out,
                    language, last_requested, transcription_kwargs, segments,
                    engine_fail, segment_texts, text, chunks, opens, removed, yielded >>

HandleAudioStop(s) ==
    /\ pc[s] = "read"
    /\ LoopFree
    /\ IF WavIsNone(s)
       THEN /\ pc' = [pc EXCEPT ![s] = "failed"]
            /\ DropHandler(s)
       ELSE /\ pc' = [pc EXCEPT ![s] = "acquire"]
            /\ wav_file' = [wav_file EXCEPT ![s] = CloseWav(@)]
            /\ UNCHANGED << language, last_requested, transcription_kwargs, segments, engine_fail, segment_texts,
                            text, chunks, opens, removed, yielded >>
    /\ UNCHANGED << main_vars, model_lock, in_flight, wyoming_info_event, out >>

\* `async with self.model_lock`: asyncio.Lock.acquire takes a free lock
\* without suspending; then the keyword arguments are built.
\* An acquire that does not take the lock.
LockAcquire_Skip(lock, s) == lock

LockAcquire(lock, s) == s

\* A handler that leaves the lock held after the backend call.
LockRelease_Keep(lock, s) == lock

LockRelease(lock, s) == None

TranscriptionKwargs(s) ==
    [language |-> language[s], beam_size |-> beam_size, set |-> TRUE]

Acquire(s) ==
    /\ pc[s] = "acquire"
    /\ model_lock = None
    /\ model_lock' = LockAcquire(model_lock, s)
    /\ transcription_kwargs' = [transcription_kwargs EXCEPT ![s] = TranscriptionKwargs(s)]
    /\ pc' = [pc EXCEPT ![s] = "call"]
    /\ UNCHANGED << main_vars, in_flight, wyoming_info_event, language, last_requested, wav_file,
                    segments, engine_fail, segment_texts, text, out, chunks, opens, removed, yielded >>

\* segments = self.backend.transcribe(self._wav_path, **transcription_kwargs)
BackendCall(s, outcomes) ==
    /\ pc[s] = "call"
    /\ \E eng \in outcomes :
           /\ segments' = [segments EXCEPT ![s] = Transcribe(whisper_backend, eng)]
           /\ engine_fail' = [engine_fail EXCEPT ![s] = eng.fail]
    /\ in_flight' = in_flight + 1
    /\ segment_texts' = [segment_texts EXCEPT ![s] = <<>>]
    /\ pc' = [pc EXCEPT ![s] = "iter"]
    /\ UNCHANGED << main_vars, model_lock, wyoming_info_event, language, last_requested, wav_file,
                    transcription_kwargs, text, out, chunks, opens, removed, yielded >>

\* One pass of `for segment in segments`: keep the stripped text if the
\* segment has a text and the stripped text is not empty.
CollectSegment(texts, segment) ==
    IF segment.has_text /\ segment.text # <<>>
    THEN LET segment_text == Strip(segment.text)
         IN  IF segment_text # <<>> THEN Append(texts, segment_text) ELSE texts
    ELSE texts

NextSegment(s) ==
    /\ pc[s] = "iter"
    /\ ~segments[s].raises_at_call
    /\ segments[s].segs # <<>>
    /\ segment_texts' = [segment_texts EXCEPT ![s] = CollectSegment(@, Head(segments[s].segs))]
    /\ yielded' = [yielded EXCEPT ![s] = Append(@, Head(segments[s].segs))]
    /\ segments' = [segments EXCEPT ![s].segs = Tail(@)]
    /\ UNCHANGED << engine_fail, main_vars, model_lock, in_flight, pc, wyoming_info_event, language, last_requested,
                    wav_file, transcription_kwargs, text, out, chunks, opens, removed >>

\* The iterator is exhausted: text = " ".join(segment_texts).
FinalText(texts) == Join(texts)

EndOfSegments(s) ==
    /\ pc[s] = "iter"
    /\ ~segments[s].raises_at_call
    /\ segments[s].segs = <<>>
    /\ ~segments[s].raises_after
    /\ text' = [text EXCEPT ![s] = FinalText(segment_texts[s])]
    /\ in_flight' = in_flight - 1
    /\ pc' = [pc EXCEPT ![s] = "release"]
    /\ UNCHANGED << main_vars, model_lock, wyoming_info_event, language, last_requested, wav_file,
                    transcription_kwargs, segments, engine_fail, segment_texts, out, chunks,
                    opens, removed, yielded >>

\* `except Exception`: the call or the iteration raised; text = "".
\* A handler that keeps what was collected before the failure.
FailureText_Partial(texts) == Join(texts)

FailureText(texts) == <<>>

\* A handler without the try/except: the exception leaves the `async with`
\* block (which releases the lock) and then handle_event.
TranscriptionFailed_Propagates(s) ==
    /\ pc[s] = "iter"
    /\ \/ segments[s].raises_at_call
       \/ segments[s].segs = <<>> /\ segments[s].raises_after
    /\ in_flight' = in_flight - 1
    /\ model_lock' = None
    /\ pc' = [pc EXCEPT ![s] = "failed"]
    /\ DropHandler(s)
    /\ UNCHANGED << main_vars, wyoming_info_event, out >>

\* A failure path that leaves the lock block without releasing the lock.
TranscriptionFailed_KeepsLock(s) ==
    /\ pc[s] = "iter"
    /\ \/ segments[s].raises_at_call
       \/ segments[s].segs = <<>> /\ segments[s].raises_after
    /\ text' = [text EXCEPT ![s] = FailureText(segment_texts[s])]
    /\ in_flight' = in_flight - 1
    /\ pc' = [pc EXCEPT ![s] = "write"]
    /\ UNCHANGED << main_vars, model_lock, wyoming_info_event, language, last_requested, wav_file,
                    transcription_kwargs, segments, engine_fail, segment_texts, out, chunks,
                    opens, removed, yielded >>

TranscriptionFailed(s) ==
    /\ pc[s] = "iter"
    /\ \/ segments[s].raises_at_call
       \/ segments[s].segs = <<>> /\ segments[s].raises_after
    /\ text' = [text EXCEPT ![s] = FailureText(segment_texts[s])]
    /\ in_flight' = in_flight - 1
    /\ pc' = [pc EXCEPT ![s] = "release"]
    /\ UNCHANGED << main_vars, model_lock, wyoming_info_event, language, last_requested, wav_file,
                    transcription_kwargs, segments, engine_fail, segment_texts, out, chunks,
                    opens, removed, yielded >>

\* Leaving `async with self.model_lock`.
Release(s) ==
    /\ pc[s] = "release"
    /\ model_lock' = LockRelease(model_lock, s)
    /\ pc' = [pc EXCEPT ![s] = "write"]
    /\ UNCHANGED << main_vars, in_flight, wyoming_info_event, language, last_requested, wav_file,
                    transcription_kwargs, segments, engine_fail, segment_texts, text, out,
                    chunks, opens, removed, yielded >>

\* await self.write_event(Transcript(text=text).event())
WriteTranscript(s) ==
    /\ pc[s] = "write"
    /\ out' = [out EXCEPT ![s] = Append(@, TranscriptEvent(text[s]))]
    /\ pc' = [pc EXCEPT ![s] = "reset"]
    /\ UNCHANGED << main_vars, model_lock, in_flight, wyoming_info_event, language, last_requested,
                    wav_file, transcription_kwargs, segments, engine_fail, segment_texts, text,
                    chunks, opens, removed, yielded >>

\* return False.  The server loop stops reading from the connection and the
\* handler with its temporary directory is dropped.
AfterStop == "returned"

\* An AudioStop branch without the reset of the language.
ResetLanguage_Keep(s) == language[s]

\* self._language = self.cli_args.language
ResetLanguage(s) == cli_language

ResetAndReturn(s) ==
    /\ pc[s] = "reset"
    /\ LoopFree
    /\ pc' = [pc EXCEPT ![s] = AfterStop]
    /\ language' = [language EXCEPT ![s] = ResetLanguage(s)]
    /\ DropLocals(s)
    /\ UNCHANGED last_requested
    /\ UNCHANGED << main_vars, model_lock, in_flight, wyoming_info_event, out >>

\* Transcribe: a language that is set replaces the handler's language.
\* A Transcribe branch that never stores the language.
SetLanguage_Ignore(current, requested) == current

SetLanguage(current, requested) == IF requested # None THEN requested ELSE current

HandleTranscribe(s, requested) ==
    /\ pc[s] = "read"
    /\ LoopFree
    /\ language' = [language EXCEPT ![s] = SetLanguage(@, requested)]
    /\ last_requested' = [last_requested EXCEPT
                            ![s] = IF requested # None THEN requested ELSE @]
    /\ UNCHANGED << main_vars, model_lock, in_flight, pc, wyoming_info_event, wav_file,
                    transcription_kwargs, segments, engine_fail, segment_texts, text, out,
                    chunks, opens, removed, yielded >>

\* Describe: write the event built in __init__.
IsInfo(e) == e.type = "info"
IsTranscript(e) == e.type = "transcript"

\* A reply rebuilt for each request from the handler's current language.
DescribeReply_PerSession(s) ==
    InfoEvent([wyoming_info EXCEPT !.languages = <<language[s]>>])

DescribeReply(s) == wyoming_info_event[s]

HandleDescribe(s) ==
    /\ pc[s] = "read"
    /\ LoopFree
    /\ Len(SelectSeq(out[s], IsInfo)) < MaxDescribes
    /\ out' = [out EXCEPT ![s] = Append(@, DescribeReply(s))]
    /\ UNCHANGED << main_vars, model_lock, in_flight, pc, wyoming_info_event, language, last_requested,
                    wav_file, transcription_kwargs, segments, engine_fail, segment_texts, text,
                    chunks, opens, removed, yielded >>

\* Any other event type: return True.
\* A handler whose last line returns False.
HandleOther_Closes(s) ==
    /\ pc[s] = "read"
    /\ LoopFree
    /\ pc' = [pc EXCEPT ![s] = "returned"]
    /\ DropHandler(s)
    /\ UNCHANGED << main_vars, model_lock, in_flight, wyoming_info_event, out >>

HandleOther(s) ==
    /\ pc[s] = "read"
    /\ LoopFree
    /\ UNCHANGED vars

\* ---------------------------------------------------------- specifications
\* Inputs of the concurrent specification: every kind of event on every
\* connection, one chunk value and a coarse choice of engine outcomes (the
\* engine fails at the call, or returns at most one segment and then ends or
\* fails, or returns a full text only).
ServedChunks == { [format |-> [rate |-> 16000, width |-> 2, channels |-> 1],
                   audio |-> <<1>>] }

CoarseOutcomes ==
    { eng \in EngineOutcomesOver({ <<"a">> }) : Len(eng.segments) <= 1 }

\* The steps of handle_event that follow an AudioStop, up to its return.
StopSteps(s) ==
    \/ Acquire(s)
    \/ NextSegment(s)
    \/ EndOfSegments(s)
    \/ TranscriptionFailed(s)
    \/ Release(s)
    \/ WriteTranscript(s)
    \/ ResetAndReturn(s)

Next ==
    \E s \in Sessions :
        \/ Connect(s)
        \/ Disconnect(s)
        \/ \E chunk \in ServedChunks : HandleAudioChunk(s, chunk)
        \/ HandleAudioStop(s)
        \/ BackendCall(s, CoarseOutcomes)
        \/ StopSteps(s)
        \/ \E requested \in Languages : HandleTranscribe(s, requested)
        \/ HandleDescribe(s)
        \/ HandleOther(s)

Spec == Init /\ [][Next]_vars

\* One connection, every chunk format and payload, coarse engine outcomes.
NextBuffer ==
    \/ Connect("c1")
    \/ \E chunk \in AudioChunks : HandleAudioChunk("c1", chunk)
    \/ HandleAudioStop("c1")
    \/ BackendCall("c1", CoarseOutcomes)
    \/ StopSteps("c1")

BufferSpec == Init /\ [][NextBuffer]_vars

\* One connection, one chunk value, every engine outcome.
NextText ==
    \/ Connect("c1")
    \/ \E chunk \in ServedChunks : HandleAudioChunk("c1", chunk)
    \/ HandleAudioStop("c1")
    \/ BackendCall("c1", EngineOutcomes)
    \/ StopSteps("c1")

TextSpec == Init /\ [][NextText]_vars

\* A handler that has received an AudioStop runs on to the write of its
\* Transcript: the event loop keeps running the task and the backend call
\* ends.
NextUtterance ==
    \E s \in Sessions :
        \/ Connect(s)
        \/ Disconnect(s)
        \/ \E chunk \in ServedChunks : HandleAudioChunk(s, chunk)
        \/ HandleAudioStop(s)
        \/ BackendCall(s, CoarseOutcomes)
        \/ StopSteps(s)

FairSpec ==
    /\ Init
    /\ [][NextUtterance]_vars
    /\ \A s \in Sessions :
           WF_vars(BackendCall(s, CoarseOutcomes) \/ StopSteps(s))

\* Startup on every host with every command line, after any registrations
\* made before main runs, followed by the first connection up to the call of
\* the backend.
StartupInit == \E h \in Hosts, args \in Argvs : Starting(h, args)

\* Registrations made before main: an original name given another class,
\* and a new name.
StartupRegistrations ==
    { <<"faster-whisper", "MLXWhisperBackend">>,
      <<"whisper-cpp", "OpenAIWhisperBackend">> }

NextStartup ==
    \/ \E r \in StartupRegistrations : Register(r[1], r[2])
    \/ RunMain
    \/ \E s \in {"c1"} :
        \/ Connect(s)
        \/ \E chunk \in ServedChunks : HandleAudioChunk(s, chunk)
        \/ HandleAudioStop(s)
        \/ Acquire(s)
        \/ BackendCall(s, CoarseOutcomes)

StartupSpec == StartupInit /\ [][NextStartup]_vars

\* The factory used on its own: registrations and creations in any order.
FactoryNames == BackendNames \cup {"whisper-cpp"}
\* Names registered on top of the original ones: one of them again, one new.
RegisteredNames == {"faster-whisper", "whisper-cpp"}
FactoryModels == { <<"small">>, <<"whisper-1">> }
FactoryHosts ==
    { h \in Hosts : /\ h.system = "linux" /\ h.machine = "x86_64"
                    /\ h.api_key /\ h.model_loads
                    /\ h.modules \in {Modules, {}} }

FactoryInit ==
    \E h \in FactoryHosts :
        Starting(h, [backend |-> "auto", model |-> Auto, beam_size |-> 0, language |-> None])

NextFactory ==
    \/ \E name \in RegisteredNames, cls \in Classes : Register(name, cls)
    \/ \E name \in FactoryNames, model_arg \in FactoryModels : Create(name, model_arg)

FactorySpec == FactoryInit /\ [][NextFactory]_vars


\* ------------------------------------------------------------------ claims
\* backend.transcribe raised, or its iterator raised.
Raised(s) ==
    \/ segments[s].raises_at_call
    \/ segments[s].segs = <<>> /\ segments[s].raises_after

TranscriptCount(s) == Len(SelectSeq(out[s], IsTranscript))

\* The backend call of s is in progress: transcribe was called and its
\* segment sequence is not yet consumed or abandoned.
InBackend(s) == pc[s] = "iter"

\* The handler of s is inside `async with self.model_lock`.
InGate(s) == pc[s] \in {"call", "iter", "release"}

\* C1: at most one backend transcription is in progress at any time: the
\* in-flight counter never exceeds 1, it counts exactly the sessions inside
\* the backend, and a session inside the gate is the holder of the one
\* shared lock.
C1_AtMostOneTranscription ==
    /\ in_flight \in {0, 1}
    /\ in_flight = Cardinality({ s \in Sessions : InBackend(s) })
    /\ \A s \in Sessions : InGate(s) => model_lock = s
    /\ model_lock # None => InGate(model_lock)

\* A transcription is in flight while another connection is recording.
C1_Witness ==
    \E s, t \in Sessions :
        /\ s # t
        /\ InBackend(s) /\ in_flight = 1
        /\ pc[t] = "read" /\ ~WavIsNone(t)

\* C2: every completed utterance (chunks, then a stop) is eventually
\* followed by exactly one Transcript on its connection, whatever the
\* backend does; a connection never carries a Transcript without a
\* completed utterance, and never two.
UtteranceCompleted(s) == pc[s] \in SyncPoints \cup {"reset"}

Replied(s) == pc[s] = "reset" /\ TranscriptCount(s) = 1

C2_OneTranscriptPerUtterance ==
    /\ [](\A s \in Sessions :
            TranscriptCount(s) = IF pc[s] \in {"reset", "returned"} THEN 1 ELSE 0)
    /\ \A s \in Sessions : UtteranceCompleted(s) ~> Replied(s)

\* A Transcript was written after an iteration that raised, and another
\* after one that yielded no segment at all.
C2_Witness ==
    \E s, t \in Sessions :
        /\ s # t
        /\ Replied(s) /\ Raised(s)
        /\ pc[t] = "returned" /\ TranscriptCount(t) = 1

\* C3: when backend.transcribe raises, at the call or while its segments are
\* consumed (also after some were yielded), the Transcript text is the empty
\* string and the exception does not leave the stop handling: the handler
\* goes on to release the lock and write the Transcript.
C3_FailureGivesEmptyTranscript ==
    /\ [](\A s \in Sessions :
            Raised(s) =>
                /\ pc[s] \in {"iter", "release", "write", "reset"}
                /\ pc[s] \in {"release", "write", "reset"} => text[s] = <<>>
                /\ pc[s] = "reset" => out[s][Len(out[s])] = TranscriptEvent(<<>>))
    /\ [][\A s \in Sessions :
            pc[s] = "iter" => pc'[s] \in {"iter", "release"}]_vars

\* The iterator raised after a segment with text had been collected, and the
\* empty Transcript is written.
C3_Witness ==
    \E s \in Sessions :
        /\ pc[s] = "reset"
        /\ segments[s].raises_after
        /\ segment_texts[s] # <<>>
        /\ out[s][Len(out[s])] = TranscriptEvent(<<>>)

\* C4: for every segment sequence the backend yields to its end, the
\* Transcript text is the segments' texts, each trimmed of surrounding
\* whitespace, the empty ones removed, joined by exactly one space in
\* segment order; the empty string when nothing is left.
Min(S) == CHOOSE x \in S : \A y \in S : x <= y
Max(S) == CHOOSE x \in S : \A y \in S : x >= y

Trimmed(t) ==
    LET solid == { i \in 1..Len(t) : t[i] # " " }
    IN  IF solid = {} THEN <<>> ELSE SubSeq(t, Min(solid), Max(solid))

IsNonEmpty(t) == t # <<>>

ExpectedText(segs) ==
    LET kept == SelectSeq([i \in 1..Len(segs) |-> Trimmed(segs[i].text)], IsNonEmpty)
        upto[n \in 0..Len(kept)] ==
            IF n = 0 THEN <<>>
            ELSE IF n = 1 THEN kept[1]
            ELSE upto[n - 1] \o <<" ">> \o kept[n]
    IN  upto[Len(kept)]

ConsumedToEnd(s) ==
    /\ pc[s] \in {"release", "write", "reset"}
    /\ ~Raised(s)

C4_TranscriptIsJoinedSegments ==
    \A s \in Sessions :
        ConsumedToEnd(s) =>
            /\ text[s] = ExpectedText(yielded[s])
            /\ pc[s] = "reset" => out[s][Len(out[s])] = TranscriptEvent(ExpectedText(yielded[s]))

\* A Transcript of two joined texts, one of which had to be trimmed, from a
\* sequence that also held a blank segment.
C4_Witness ==
    \E s \in Sessions :
        /\ pc[s] = "reset" /\ ~Raised(s)
        /\ Len(yielded[s]) = 3
        /\ Len(segment_texts[s]) = 2
        /\ \E i \in 1..3 : yielded[s][i].text = <<" ">>
        /\ \E i \in 1..3 : yielded[s][i].text \notin {Strip(yielded[s][i].text), <<" ">>}
        /\ out[s][Len(out[s])].text = segment_texts[s][1] \o <<" ">> \o segment_texts[s][2]


\* C5: once the Transcript of an utterance has been written and the stop
\* handling is over, the session is back in Idle on an open connection,
\* ready for a further chunk that opens a fresh buffer.
C5_SessionOpenAfterTranscript ==
    \A s \in Sessions :
        (TranscriptCount(s) > 0 /\ pc[s] # "reset") => (pc[s] = "read" /\ WavIsNone(s))

\* C6: a stop event in Idle (no buffer open) ends that session with an error
\* and does nothing else: the handler never goes on to the gate or the
\* backend, no Transcript is written, and the lock, the in-flight counter
\* and every other session are left as they were.
C6_StopInIdleFailsSession ==
    /\ [](\A s \in Sessions : pc[s] = "failed" => TranscriptCount(s) = 0)
    /\ [][\A s \in Sessions :
            /\ (pc[s] = "read" /\ WavIsNone(s)) => pc'[s] \notin SyncPoints
            /\ (HandleAudioStop(s) /\ WavIsNone(s)) =>
                   /\ pc'[s] = "failed"
                   /\ out' = out
                   /\ model_lock' = model_lock
                   /\ in_flight' = in_flight
                   /\ transcription_kwargs'[s] = NoKwargs
                   /\ \A t \in Sessions \ {s} :
                          /\ pc'[t] = pc[t]
                          /\ wav_file'[t] = wav_file[t]
                          /\ language'[t] = language[t]]_vars

\* A session failed on a stop in Idle while the other one is still recording.
C6_Witness ==
    \E s, t \in Sessions :
        /\ pc[s] = "failed"
        /\ pc[t] = "read" /\ ~WavIsNone(t)


\* C7: a chunk whose rate, width or channel count differs from the first
\* chunk of the utterance is rejected and its bytes are not appended: every
\* chunk written to the buffer has the format of the first one.
C7_OnlyFirstFormatBuffered ==
    \A s \in Sessions :
        \A i \in 1..Len(chunks[s]) : chunks[s][i].format = chunks[s][1].format

\* C8: the buffer is opened exactly once per utterance, on the first chunk,
\* with that chunk's format as its declared format; from then on, and still
\* at the stop event and during the transcription, the buffered audio is the
\* concatenation of all chunk payloads in arrival order.
RECURSIVE ConcatAudio(_)
ConcatAudio(cs) ==
    IF cs = <<>> THEN <<>>
    ELSE ConcatAudio(SubSeq(cs, 1, Len(cs) - 1)) \o cs[Len(cs)].audio

RECURSIVE TotalBytes(_)
TotalBytes(cs) == IF cs = <<>> THEN 0 ELSE Len(Head(cs).audio) + TotalBytes(Tail(cs))

C8_BufferIsConcatenation ==
    \A s \in Sessions :
        IF chunks[s] = <<>>
        THEN opens[s] = 0 /\ wav_file[s] = NoWav
        ELSE /\ opens[s] = 1
             /\ wav_file[s].format = chunks[s][1].format
             /\ wav_file[s].frames = ConcatAudio(chunks[s])
             /\ Len(wav_file[s].frames) = TotalBytes(chunks[s])
             /\ wav_file[s].state = IF pc[s] = "read" THEN "open" ELSE "closed"

\* The stop event arrived after two chunks with different payloads and
\* different formats.
C8_Witness ==
    \E s \in Sessions :
        /\ pc[s] = "acquire"
        /\ Len(chunks[s]) = 2
        /\ chunks[s][1].audio # chunks[s][2].audio
        /\ chunks[s][1].format # chunks[s][2].format

\* C9: every reply to a Describe, on any connection and at any time, is the
\* event of the Info record built at startup, and that record never changes.
C9_DescribeReplyIsStartupInfo ==
    /\ [](\A s \in Sessions :
            \A i \in 1..Len(out[s]) :
                IsInfo(out[s][i]) => out[s][i] = InfoEvent(wyoming_info))
    /\ [](wyoming_info = WyomingInfo(backend, whisper_backend))
    /\ [][wyoming_info' = wyoming_info /\ backend' = backend]_vars

\* A Describe was answered on a connection before its transcription, and on
\* another connection whose language has been changed by a Transcribe event.
C9_Witness ==
    \E s, t \in Sessions :
        /\ pc[s] = "returned"
        /\ Len(out[s]) = 2 /\ IsInfo(out[s][1]) /\ IsTranscript(out[s][2])
        /\ pc[t] = "read"
        /\ language[t] # cli_language
        /\ Len(out[t]) = 1 /\ IsInfo(out[t][1])

\* C10: a Describe, a Transcribe (language-set) or an event of any other
\* type, handled in Idle or in Recording, leaves the buffer (open or not,
\* format, audio) as it was and the session waiting for the next event;
\* Describe and other events also leave the language as it was; a Describe
\* writes exactly one event and the other two write none.
SessionUntouched(s) ==
    /\ pc'[s] = "read"
    /\ wav_file'[s] = wav_file[s]
    /\ chunks'[s] = chunks[s]
    /\ opens'[s] = opens[s]

C10_SideEventsKeepRecordingState ==
    [][\A s \in Sessions :
         /\ HandleDescribe(s) =>
                /\ SessionUntouched(s)
                /\ language'[s] = language[s]
                /\ Len(out'[s]) = Len(out[s]) + 1
                /\ IsInfo(out'[s][Len(out'[s])])
         /\ HandleOther(s) =>
                /\ SessionUntouched(s)
                /\ language'[s] = language[s]
                /\ out'[s] = out[s]
         /\ \A requested \in Languages :
                HandleTranscribe(s, requested) =>
                    /\ SessionUntouched(s)
                    /\ out'[s] = out[s]]_vars

\* A session that is recording, with a language set by a Transcribe event
\* and a Describe answered.
C10_Witness ==
    \E s \in Sessions :
        /\ pc[s] = "read"
        /\ ~WavIsNone(s)
        /\ language[s] # cli_language
        /\ Len(out[s]) = 1 /\ IsInfo(out[s][1])

\* The language an utterance of session s is to be transcribed with: the one
\* of the latest Transcribe event of the connection that carried a language,
\* the startup default when there was none.
LanguageInForce(s) ==
    IF last_requested[s] # None THEN last_requested[s] ELSE cli_language

\* C11: when an utterance is over (its Transcript written and handle_event
\* returned), the session's language is the startup default again, whatever
\* language a Transcribe event had set for it and whether the backend
\* succeeded or failed; the step that leaves the reset point is the one that
\* puts the default back, and a connection that starts afterwards starts with
\* the default and no language request carried over.
C11_LanguageResetAfterUtterance ==
    /\ [](\A s \in Sessions : pc[s] = "returned" => language[s] = cli_language)
    /\ [][\A s \in Sessions :
            /\ (pc[s] = "reset" /\ pc'[s] # "reset") =>
                   /\ TranscriptCount(s) = 1
                   /\ language'[s] = cli_language
            /\ (pc[s] \in Ended /\ pc'[s] = "read") =>
                   /\ language'[s] = cli_language
                   /\ last_requested'[s] = None]_vars

\* An utterance that was transcribed with a language other than the default
\* is over and the language is the default again.
C11_Witness ==
    \E s \in Sessions :
        /\ pc[s] = "returned"
        /\ TranscriptCount(s) = 1
        /\ last_requested[s] \notin {None, cli_language}
        /\ language[s] = cli_language

\* C12: a Transcribe event that carries a language replaces the language of
\* its own session and of no other; from the moment the connection is open to
\* the reset after the Transcript the session's language is the one of the
\* latest such event, or the startup default when there was none, and that is
\* the language in the options given to the backend at the stop.
C12_LanguageGivenToBackend ==
    /\ [](\A s \in Sessions :
            /\ pc[s] \notin Ended => language[s] = LanguageInForce(s)
            /\ pc[s] \in {"call", "iter", "release", "write", "reset"} =>
                   /\ transcription_kwargs[s].set
                   /\ transcription_kwargs[s].language = LanguageInForce(s))
    /\ [][\A s \in Sessions : \A requested \in Languages :
            HandleTranscribe(s, requested) =>
                /\ requested # None => language'[s] = requested
                /\ requested = None => language'[s] = language[s]
                /\ \A t \in Sessions \ {s} :
                       /\ language'[t] = language[t]
                       /\ transcription_kwargs'[t] = transcription_kwargs[t]]_vars

\* One session is being transcribed with a language it was given by a
\* Transcribe event while another session holds a different language.
C12_Witness ==
    \E s, t \in Sessions :
        /\ s # t
        /\ pc[s] = "iter"
        /\ last_requested[s] = "de"
        /\ transcription_kwargs[s].language = "de"
        /\ pc[t] = "read"
        /\ last_requested[t] = "en"
        /\ language[t] = "en"

\* main has run and got past the choice of the backend.
BackendChosen == stage # "start" /\ model_name # <<>>

AppleSilicon(h) == h.system = "darwin" /\ h.machine \in {"arm64", "aarch64"}

\* C13: with --backend auto the backend is chosen by the first rule that
\* applies: mlx-whisper exactly when the host is Apple silicon and mlx_whisper
\* can be imported; otherwise faster-whisper when faster_whisper can be
\* imported; otherwise openai-whisper when whisper can be imported; otherwise
\* main stops with ImportError and no backend is constructed.  An x86 host
\* with only the baseline engine therefore gets openai-whisper.
C13_AutoDetectionFirstMatch ==
    (stage # "start" /\ argv.backend = "auto") =>
        LET apple    == AppleSilicon(host) /\ "mlx_whisper" \in host.modules
            faster   == "faster_whisper" \in host.modules
            baseline == "whisper" \in host.modules
        IN  /\ (backend = "mlx-whisper") <=> apple
            /\ (backend = "faster-whisper") <=> (~apple /\ faster)
            /\ (backend = "openai-whisper") <=> (~apple /\ ~faster /\ baseline)
            /\ (~apple /\ ~faster /\ ~baseline) <=>
                   (error = "ImportError" /\ constructed = <<>>)
            /\ (~apple /\ ~faster /\ ~baseline) =>
                   (stage = "exit" /\ backend = "auto")
            /\ (host.machine = "x86_64" /\ ~faster /\ baseline) =>
                   backend = "openai-whisper"

\* Detection has run on an x86 Mac where mlx_whisper and whisper can be
\* imported but faster_whisper cannot, and chose openai-whisper.
C13_Witness ==
    /\ stage # "start"
    /\ argv.backend = "auto"
    /\ host.system = "darwin"
    /\ host.machine = "x86_64"
    /\ host.modules = {"mlx_whisper", "whisper"}
    /\ backend = "openai-whisper"

\* C14: the model is selected automatically only for --model auto: then it is
\* the MLX default for mlx-whisper, tiny-int8 on ARM and base-int8 elsewhere
\* for the other backends.  A model named on the command line stays the one
\* named: main only rewrites the spelling of an int8 model for faster-whisper
\* (same size, "-int8", with the repository prefix for the backend).
C14_ModelAutoSelection ==
    BackendChosen =>
        /\ argv.model = Auto =>
               model_name = IF backend = "mlx-whisper" THEN MLXDefaultModel
                            ELSE IF host.machine \in {"arm64", "aarch64"}
                                 THEN <<"tiny", "-", "int8">>
                                 ELSE <<"base", "-", "int8">>
        /\ argv.model # Auto =>
               \/ model_name = argv.model /\ model = argv.model
               \/ /\ backend = "faster-whisper"
                  /\ Len(argv.model) = 3
                  /\ model_name = <<argv.model[1], "-", "int8">>
                  /\ model = <<"rhasspy/faster-whisper-", argv.model[1], "-", "int8">>
        /\ model_name # Auto

\* The server runs faster-whisper on an ARM host with the model that main
\* selected for --model auto.
C14_Witness ==
    /\ stage = "serving"
    /\ argv.model = Auto
    /\ host.machine = "aarch64"
    /\ backend = "faster-whisper"
    /\ model_name = <<"tiny", "-", "int8">>
    /\ model = <<"rhasspy/faster-whisper-", "tiny", "-", "int8">>

\* C15: a beam size of zero or less on the command line becomes 1 on ARM and
\* 5 elsewhere, a positive one is kept, and the beam size in the options of
\* every transcription is that resolved value, which is at least 1.
C15_BeamSizeResolved ==
    /\ BackendChosen =>
           /\ beam_size >= 1
           /\ argv.beam_size > 0 => beam_size = argv.beam_size
           /\ argv.beam_size <= 0 =>
                  beam_size = IF host.machine \in {"arm64", "aarch64"} THEN 1 ELSE 5
    /\ \A s \in Sessions :
           transcription_kwargs[s].set =>
               /\ BackendChosen
               /\ transcription_kwargs[s].beam_size = beam_size
               /\ transcription_kwargs[s].beam_size >= 1

\* The options of a transcription on an ARM host started with a beam size of
\* zero carry the beam size 1.
C15_Witness ==
    \E s \in Sessions :
        /\ pc[s] = "call"
        /\ transcription_kwargs[s].set
        /\ argv.beam_size = 0
        /\ host.machine = "arm64"
        /\ transcription_kwargs[s].beam_size = 1

\* C16: create_backend with a name that is not registered raises ValueError,
\* invokes no constructor and leaves the registry and the last instance as
\* they were; with a registered name it invokes the constructor of exactly
\* the class registered under that name, once, and a returned instance is of
\* that class.  register_backend makes the name map to the given class and
\* changes the entry of no other name; it constructs nothing.
C16_FactoryRegistry ==
    /\ [][\A name \in FactoryNames : \A model_arg \in FactoryModels :
            Create(name, model_arg) =>
                /\ registry' = registry
                /\ IF name \notin DOMAIN registry
                   THEN /\ error' = "ValueError"
                        /\ constructed' = constructed
                        /\ whisper_backend' = whisper_backend
                   ELSE /\ constructed' =
                               Append(constructed, [name |-> name, cls |-> registry[name]])
                        /\ error' = None => whisper_backend'.cls = registry[name]
                        /\ error' # None => whisper_backend' = whisper_backend]_vars
    /\ [][\A name \in RegisteredNames : \A cls \in Classes :
            Register(name, cls) =>
                /\ DOMAIN registry' = DOMAIN registry \cup {name}
                /\ registry'[name] = cls
                /\ \A n \in DOMAIN registry \ {name} : registry'[n] = registry[n]
                /\ constructed' = constructed
                /\ whisper_backend' = whisper_backend]_vars

\* A name added to the registry was created: the constructor invoked and the
\* instance returned are of the class registered under it; another name was
\* registered again with another class and the remaining two original names
\* still map to their original classes.
C16_Witness ==
    /\ "whisper-cpp" \in DOMAIN registry
    /\ registry["whisper-cpp"] = "OpenAIWhisperBackend"
    /\ registry["faster-whisper"] = "MLXWhisperBackend"
    /\ \A n \in BackendNames \ {"faster-whisper"} : registry[n] = DefaultBackends[n]
    /\ constructed = << [name |-> "whisper-cpp", cls |-> "OpenAIWhisperBackend"] >>
    /\ whisper_backend.cls = "OpenAIWhisperBackend"
    /\ error = None

\* C17: when main stops on an unknown backend name, on a failed detection or
\* on a failed construction of the backend, the process is not serving and
\* never will be: no backend instance and no Info record exist, no
\* connection is ever accepted, and nothing is written to any client.
C17_FailedStartupNeverServes ==
    /\ []((stage # "start" /\ error # None) =>
            /\ stage = "exit"
            /\ whisper_backend = NoBackend
            /\ wyoming_info = NoInfo
            /\ \A s \in Sessions : pc[s] = "none" /\ out[s] = <<>>)
    /\ []((stage # "start" /\ error = None) => stage = "serving")
    /\ [][stage = "exit" => (stage' = "exit" /\ pc' = pc /\ out' = out)]_vars

\* main stopped because the constructor of the chosen backend raised.
C17_Witness ==
    /\ stage = "exit"
    /\ error = "RuntimeError"
    /\ constructed = << [name |-> "faster-whisper", cls |-> "FasterWhisperBackend"] >>
    /\ \A s \in Sessions : pc[s] = "none"

\* C18: whatever the engine does, backend.transcribe neither raises when it
\* is called nor hands back an iterator that raises, and when the engine
\* fails the iterator it hands back yields no segment at all.
C18_BackendNeverRaises ==
    \A s \in Sessions :
        pc[s] = "iter" =>
            /\ ~segments[s].raises_at_call
            /\ ~segments[s].raises_after
            /\ (engine_fail[s] # "none" /\ yielded[s] = <<>>) => segments[s].segs = <<>>

\* C19: while one session is at the gate or inside the backend call, another
\* session that has an event to handle can handle it: its next audio chunk
\* can be buffered and its Describe can be answered.
C19_OtherSessionsProgress ==
    \A s, t \in Sessions :
        (s # t /\ pc[s] \in {"acquire", "call", "iter"} /\ pc[t] = "read") =>
            /\ Len(chunks[t]) < MaxChunks =>
                   ENABLED (\E chunk \in ServedChunks : HandleAudioChunk(t, chunk))
            /\ Len(SelectSeq(out[t], IsInfo)) < MaxDescribes =>
                   ENABLED HandleDescribe(t)

\* C20: within one utterance the wave file is closed before the lock is
\* taken; the backend is called and its segments are consumed only by the
\* holder of the lock; the lock is released before the Transcript is
\* written, so the handler that writes never holds it.
C20_UtteranceOrdering ==
    /\ [](\A s \in Sessions :
            /\ pc[s] \in SyncPoints \cup {"reset"} => wav_file[s].state = "closed"
            /\ (model_lock = s) <=> pc[s] \in {"call", "iter", "release"}
            /\ pc[s] \in {"write", "reset"} => model_lock # s)
    /\ [][\A s \in Sessions :
            /\ (model_lock # s /\ model_lock' = s) =>
                   /\ pc[s] = "acquire"
                   /\ wav_file[s].state = "closed"
                   /\ segments[s] = NoSegments
            /\ (pc[s] = "call" /\ pc'[s] = "iter") =>
                   (model_lock = s /\ model_lock' = s)
            /\ Len(yielded'[s]) > Len(yielded[s]) =>
                   (model_lock = s /\ model_lock' = s)
            /\ (model_lock = s /\ model_lock' # s) =>
                   (pc[s] = "release" /\ out'[s] = out[s])
            /\ Len(out'[s]) > Len(out[s]) =>
                   (model_lock # s /\ model_lock' # s)]_vars

\* A handler has consumed a segment, released the lock and is about to write
\* the Transcript.
C20_Witness ==
    \E s \in Sessions :
        /\ pc[s] = "write"
        /\ yielded[s] # <<>>
        /\ wav_file[s].state = "closed"
        /\ model_lock = None
        /\ TranscriptCount(s) = 0

\* C21: a connection that ends while its handler has a wave file open
\* (chunks received, no stop) takes its buffer with it: the file is deleted
\* with the handler, the lock and the backend are not touched by that step or
\* by anything that follows on that connection, no Transcript was or will be
\* written for it, and the slot's next connection starts with no buffer.
\* No buffer ever holds anything but the chunks of its own connection, and
\* the end of one connection changes nothing of another's buffer or output.
C21_DisconnectWhileRecording ==
    /\ [](\A s \in Sessions :
            /\ pc[s] = "disconnected" =>
                   /\ wav_file[s] = NoWav
                   /\ chunks[s] = <<>>
                   /\ model_lock # s
                   /\ segments[s] = NoSegments
                   /\ ~transcription_kwargs[s].set
                   /\ TranscriptCount(s) = 0
            /\ wav_file[s].frames = ConcatAudio(chunks[s]))
    /\ [][\A s \in Sessions :
            /\ (pc[s] = "read" /\ ~WavIsNone(s) /\ pc'[s] = "disconnected") =>
                   /\ removed'[s]
                   /\ wav_file'[s] = NoWav
                   /\ model_lock' = model_lock
                   /\ in_flight' = in_flight
                   /\ \A t \in Sessions \ {s} :
                          /\ wav_file'[t] = wav_file[t]
                          /\ chunks'[t] = chunks[t]
                          /\ out'[t] = out[t]
                          /\ pc'[t] = pc[t]
            /\ pc[s] = "disconnected" =>
                   \/ pc'[s] = "disconnected" /\ wav_file'[s] = NoWav
                   \/ /\ pc'[s] = "read"
                      /\ wav_file'[s] = NoWav
                      /\ chunks'[s] = <<>>
                      /\ out'[s] = <<>>]_vars

\* A connection ended while it was recording and its wave file was deleted,
\* while another connection is recording into a buffer of its own.
C21_Witness ==
    \E s, t \in Sessions :
        /\ s # t
        /\ pc[s] = "disconnected"
        /\ removed[s]
        /\ wav_file[s] = NoWav
        /\ pc[t] = "read"
        /\ ~WavIsNone(t)
        /\ wav_file[t].frames = ConcatAudio(chunks[t])

\* C22: every segment the handler takes from the backend's iterator, and
\* every segment still to come from it, carries a text that is not empty and
\* has no leading or trailing whitespace.
C22_SegmentsHaveTrimmedText ==
    \A s \in Sessions :
        /\ \A i \in DOMAIN yielded[s] :
               /\ yielded[s][i].text # <<>>
               /\ yielded[s][i].text = Strip(yielded[s][i].text)
        /\ \A i \in DOMAIN segments[s].segs :
               /\ segments[s].segs[i].text # <<>>
               /\ segments[s].segs[i].text = Strip(segments[s].segs[i].text)

\* C23: the lock is held exactly by the handler that is between its acquire
\* and its release, so it is free whenever no handler is there; every way out
\* of the backend call and of the segment loop, normal or by an exception at
\* the call or during iteration, leads to the release with the lock still
\* held by that handler, and the release frees it.  Hence a held lock is
\* always freed again, and every handler that has reached the acquire gets
\* the lock.
C23_GateAlwaysReleased ==
    /\ [](/\ model_lock \in Sessions \cup {None}
          /\ \A s \in Sessions : (model_lock = s) <=> InGate(s)
          /\ (\A s \in Sessions : ~InGate(s)) => model_lock = None)
    /\ [][\A s \in Sessions :
            /\ (pc[s] = "iter" /\ pc'[s] # "iter") =>
                   (pc'[s] = "release" /\ model_lock' = s)
            /\ (pc[s] = "release" /\ pc'[s] # "release") =>
                   (pc'[s] = "write" /\ model_lock' = None)]_vars
    /\ \A s \in Sessions : (model_lock = s) ~> (model_lock = None)
    /\ \A s \in Sessions : (pc[s] = "acquire") ~> (model_lock = s)

\* One handler has written its Transcript after a transcription that went
\* through, another has had its backend call fail and has released the lock:
\* the lock is free.
C23_Witness ==
    \E s, t \in Sessions :
        /\ s # t
        /\ pc[s] = "returned"
        /\ TranscriptCount(s) = 1
        /\ pc[t] = "write"
        /\ engine_fail[t] # "none"
        /\ model_lock = None


=============================================================================
